---- MODULE Spec2Model ----
(***************************************************************************)
(* Model of src/src/data_generator.py: the synthetic loan generator        *)
(* (generate_synthetic_loan_data), the monthly panel generator             *)
(* (generate_time_varying_data), the validator                             *)
(* (validate_dataset_consistency) and the driver                           *)
(* (generate_and_save_bfi_loan_data).                                      *)
(*                                                                         *)
(* Numbers.  The code computes in float64; the model computes in integers  *)
(* (TLC's integers are 32 bit) with an explicit scale per quantity:        *)
(*   money            IDR, integer                                         *)
(*   interest_rate    tenths of a percent   (round(rate, 1))               *)
(*   ltv / dti        hundredths            (round(x, 2))                  *)
(*   default_probs    1/10000                                              *)
(*   employment_years tenths                (round(y, 1))                  *)
(*   inflation        hundredths, unemployment tenths                      *)
(*   dates            day numbers counted from start_date                  *)
(* The two random streams (random, np.random) are deterministic            *)
(* generators seeded at import; each is a state that every draw advances.  *)
(* Continuous distributions are read off tables of representative values   *)
(* that include the values the code clips.                                 *)
(***************************************************************************)
EXTENDS Integers, Sequences, FiniteSets, TLC

\* ------------------------------------------------------------------ bounds
NumSeeds == 32
MaxLoans == 3
RateDen == 4
MaxTableLoans == 2
MaxTableRows == 2

\* ------------------------------------------------------------- arithmetic
Min(a, b) == IF a <= b THEN a ELSE b
Max(a, b) == IF a >= b THEN a ELSE b
Abs(a) == IF a < 0 THEN 0 - a ELSE a

\* floor(a * b / c) for a >= 0, b >= 0, c > 0 with c * b below 2^31
MulDiv(a, b, c) == (a \div c) * b + ((a % c) * b) \div c

\* Python 3 round(): to the nearest integer, ties to the even one; num/den
RoundHalfEven(num, den) ==
    LET q == num \div den
        r2 == 2 * (num % den)
    IN  IF r2 < den THEN q
        ELSE IF r2 > den THEN q + 1
        ELSE IF q % 2 = 0 THEN q ELSE q + 1

Range(s) == {s[i] : i \in 1..Len(s)}

RECURSIVE SumSeq(_)
SumSeq(s) == IF s = <<>> THEN 0 ELSE Head(s) + SumSeq(Tail(s))

\* list.index(x): the first position holding x
IndexOf(s, x) == CHOOSE i \in 1..Len(s) : s[i] = x /\ \A j \in 1..(i - 1) : s[j] # x

\* --------------------------------------------------------- random streams
\* random.seed(42) and np.random.seed(42) at import
SeedValue == 42
Seeds == SeedValue..(SeedValue + NumSeeds - 1)

\* one step of the `random` stream and of the `np.random` stream
PyNext(s) == (s * 25173 + 13849) % 65536
NpNext(s) == (s * 9301 + 49297) % 65536

RECURSIVE PyAdv(_, _)
PyAdv(s, k) == IF k <= 0 THEN s ELSE PyAdv(PyNext(s), k - 1)
RECURSIVE NpAdv(_, _)
NpAdv(s, k) == IF k <= 0 THEN s ELSE NpAdv(NpNext(s), k - 1)

\* the value a stream state yields, uniform over 0..k-1
Uniform(s, k) == (s * k) \div 65536
\* the entry of a table of representative values a stream state yields
Pick(s, table) == table[Uniform(s, Len(table)) + 1]

\* ------------------------------------------------ static profile generator
\* the configuration of one call: num_loans, target_default_rate as the
\* fraction rate_num / RateDen, the origination window as day numbers,
\* max_history_months, and whether the call is the driver
\* (generate_and_save_bfi_loan_data, which leaves the dates at their defaults)
\* or generate_synthetic_loan_data alone
DefaultDaysRange == 365

product_types == <<"Motorcycle", "Car">>
provinces == <<"Jakarta", "West Java", "East Java", "Central Java", "Banten",
               "North Sumatra", "South Sulawesi", "Bali">>
\* province_weights, cumulated, in percent
province_cum == <<25, 45, 60, 75, 85, 90, 95, 100>>
MotorcycleTerms == <<12, 24, 36>>
CarTerms == <<12, 24, 36, 48, 60>>

\* representative draws of lognormal(16.5, 0.3) and lognormal(18.5, 0.4)
MotorcycleAmountDraws == <<2500000, 9000000, 14700000, 19000000, 26000000>>
CarAmountDraws == <<38000000, 46000000, 80000000, 108000000, 150000000>>
\* representative draws of normal(700, 70) and normal(35, 10), as integers
CreditScoreDraws == <<250, 480, 620, 700, 760, 900>>
AgeDraws == <<15, 28, 35, 47, 70>>
\* representative draws of lognormal(1.5, 0.8), in tenths of a year
EmploymentDraws == <<2, 8, 20, 45, 100, 450>>
\* representative draws of weibull(1.2), in hundredths
WeibullDraws == <<2, 30, 70, 100, 150, 250, 500>>

\* the clip when only the upper limit is applied
ClipAbove(x, lo, hi) == Min(hi, x)

\* np.clip(x, lo, hi)
Clip(x, lo, hi) == Max(lo, Min(hi, x))

\* a * b for a and b scaled by 100000, the product taken in two parts
Times(a, b) == ((a \div 1000) * b) \div 100 + ((a % 1000) * b) \div 100000

\* (1 + monthly_rate) ** term, scaled by 100000, by repeated squaring; rate in
\* tenths of a percent
RECURSIVE Growth(_, _)
Growth(rate, term) ==
    IF term <= 0 THEN 100000
    ELSE IF term % 2 = 0
    THEN LET h == Growth(rate, term \div 2) IN Times(h, h)
    ELSE LET g == Growth(rate, term - 1) IN g + (g * rate) \div 12000

\* the amortized payment per 1,000,000 of principal:
\* 10^6 * monthly_rate * (1+monthly_rate)^term / ((1+monthly_rate)^term - 1)
PaymentPerMillion(rate, term) ==
    LET f == Growth(rate, term)
        ratio == (f * 1000) \div (f - 100000)
    IN  (rate * ratio) \div 12

\* amount * (monthly_rate * (1 + monthly_rate) ** term) / ((1 + monthly_rate) ** term - 1)
Annuity(amount, rate, term) ==
    LET ppm == PaymentPerMillion(rate, term)
    IN  (amount \div 1000000) * ppm + (((amount % 1000000) \div 1000) * ppm) \div 1000

\* round(loan / collateral, 2) in hundredths; both taken in thousands
LtvRatio(loan, collateral) == RoundHalfEven((loan \div 1000) * 100, collateral \div 1000)

\* b ** k for b scaled by 10000, by repeated squaring
RECURSIVE Power(_, _)
Power(b, k) ==
    IF k <= 0 THEN 10000
    ELSE IF k % 2 = 0
    THEN LET h == Power(b, k \div 2) IN (h * h + 5000) \div 10000
    ELSE (b * Power(b, k - 1) + 5000) \div 10000

\* exp(-0.15 * years), scaled by 10000; years in tenths; exp(-0.015) = 0.9851
ExpNeg015(years10) == Power(9851, years10)

\* lines 46-47: loan ids (the number after the "L") and customer ids
LoanIds(n) == [i \in 1..n |-> 10001 + (i - 1)]
CustomerIds(n, py) == [i \in 1..n |-> 1000 + Uniform(PyAdv(py, i), 9000)]

\* lines 53-54: start_datetime + timedelta(days=random.randint(0, days_range))
OriginationDates(n, py, start, days_range) ==
    [i \in 1..n |-> start + Uniform(PyAdv(py, i), days_range + 1)]

\* line 57: random.choices(product_types, weights=[0.6, 0.4], k=num_loans)
ProductTypes(n, py) ==
    [i \in 1..n |-> IF Uniform(PyAdv(py, i), 10) < 6 THEN "Motorcycle" ELSE "Car"]

\* lines 66-83: the loop body for loan i; three np draws and one py draw a loan
LoanAmount(product, s) ==
    IF product = "Motorcycle" THEN Max(3000000, Pick(s, MotorcycleAmountDraws))
    ELSE Max(50000000, Pick(s, CarAmountDraws))
InterestRate(product, s) ==
    IF product = "Motorcycle" THEN 150 + Uniform(s, 71) ELSE 120 + Uniform(s, 61)
LoanTerm(product, s) ==
    IF product = "Motorcycle" THEN Pick(s, MotorcycleTerms) ELSE Pick(s, CarTerms)
CollateralValue(product, amount, s) ==
    IF product = "Motorcycle" THEN MulDiv(amount, 80 + Uniform(s, 31), 100)
    ELSE MulDiv(amount, 100 + Uniform(s, 31), 100)

LoanAmounts(n, products, np) ==
    [i \in 1..n |-> LoanAmount(products[i], NpAdv(np, 3 * (i - 1) + 1))]
InterestRates(n, products, np) ==
    [i \in 1..n |-> InterestRate(products[i], NpAdv(np, 3 * (i - 1) + 2))]
LoanTerms(n, products, py) ==
    [i \in 1..n |-> LoanTerm(products[i], PyAdv(py, i))]
CollateralValues(n, products, amounts, np) ==
    [i \in 1..n |-> CollateralValue(products[i], amounts[i], NpAdv(np, 3 * (i - 1) + 3))]
\* line 86
LtvRatios(n, amounts, collaterals) ==
    [i \in 1..n |-> LtvRatio(amounts[i], collaterals[i])]

\* lines 89-90
CreditScores(n, np) ==
    [i \in 1..n |-> Clip(Pick(NpAdv(np, i), CreditScoreDraws), 300, 850)]
\* lines 92-99
MonthlyIncomes(n, amounts, np) ==
    [i \in 1..n |->
        IF amounts[i] < 20000000
        THEN 3000000 + 1000 * Uniform(NpAdv(np, i), 5001)
        ELSE 7000000 + 1000 * Uniform(NpAdv(np, i), 13001)]
\* lines 102-108: the rate is looked up through loan_amounts.index(amount)
DtiRatio(amount, income, term, rate, s) ==
    LET payment == Annuity(amount, rate, term)
        dti == ((payment \div 100) * 1000) \div (income \div 100) + Uniform(s, 201)
    IN  Min((dti + 5) \div 10, 90)
DtiRatios(n, amounts, incomes, terms, rates, np) ==
    [i \in 1..n |->
        DtiRatio(amounts[i], incomes[i], terms[i],
                 rates[IndexOf(amounts, amounts[i])], NpAdv(np, i))]
\* lines 111-115
Ages(n, np) == [i \in 1..n |-> Clip(Pick(NpAdv(np, i), AgeDraws), 21, 65)]
EmploymentYears(n, np) ==
    [i \in 1..n |-> Clip(Pick(NpAdv(np, i), EmploymentDraws), 5, 300)]
\* lines 117-118
Provinces(n, py) ==
    [i \in 1..n |->
        LET u == Uniform(PyAdv(py, i), 100)
        IN  provinces[CHOOSE k \in 1..8 :
                u < province_cum[k] /\ \A j \in 1..(k - 1) : u >= province_cum[j]]]
UrbanRural(n, py) ==
    [i \in 1..n |-> IF Uniform(PyAdv(py, i), 10) < 7 THEN "Urban" ELSE "Rural"]

\* lines 123-153: the risk factor of one loan, in 1/10000
DefaultProb(credit_score, dti, ltv, product, province, urban_rural, years10) ==
    LET credit_factor == 10000 - (credit_score * 8000) \div 850
        p1 == (1000 * credit_factor * 2) \div 10000
        p2 == (p1 * (1000 + 12 * dti)) \div 1000
        p3 == (p2 * (1000 + 7 * ltv)) \div 1000
        p4 == IF product = "Motorcycle" THEN (p3 * 13) \div 10 ELSE (p3 * 11) \div 10
        p5 == IF province = "Jakarta" THEN (p4 * 9) \div 10
              ELSE IF urban_rural = "Rural" THEN (p4 * 12) \div 10
              ELSE p4
        p6 == (p5 * (10000 + ExpNeg015(years10))) \div 10000
    IN  Min(p6, 9500)

\* line 159: sorted(range(n), key=default_probs, reverse=True); the sort is
\* stable, so equal risks stay in index order
RECURSIVE SortByRisk(_, _)
SortByRisk(probs, rest) ==
    IF rest = {} THEN <<>>
    ELSE LET i == CHOOSE a \in rest : \A b \in rest :
                      probs[a] > probs[b] \/ (probs[a] = probs[b] /\ a <= b)
         IN  <<i>> \o SortByRisk(probs, rest \ {i})
IndicesByRisk(probs) == SortByRisk(probs, 1..Len(probs))

\* line 162: int(round(num_loans * target_default_rate))
TargetDefaults(num_loans, rate_num) == RoundHalfEven(num_loans * rate_num, RateDen)

\* the flags when the loop marks position i instead of indices_by_risk[i]
DefaultFlagsByPosition(n, indices_by_risk, target_defaults) ==
    [i \in 1..n |-> IF i <= target_defaults THEN 1 ELSE 0]

\* lines 165-173: the flags after the loop over range(target_defaults)
DefaultFlags(n, indices_by_risk, target_defaults) ==
    [i \in 1..n |->
        IF \E k \in 1..target_defaults : k <= n /\ indices_by_risk[k] = i THEN 1 ELSE 0]

\* the scale with 20 * (1 - risk) rounded to the nearest integer
WeibullScaleRounded(prob) == Max(3, RoundHalfEven(20 * (10000 - prob), 10000))
\* line 181
WeibullScale(prob) == Max(3, (20 * (10000 - prob)) \div 10000)
\* the time to default without the cap at loan_term
TimeToDefaultUncapped(loan_term, prob, s) ==
    Max(1, RoundHalfEven(Pick(s, WeibullDraws) * WeibullScale(prob), 100))

\* line 184: max(1, min(loan_term, round(np.random.weibull(shape) * scale)))
TimeToDefault(loan_term, prob, s) ==
    Max(1, Min(loan_term, RoundHalfEven(Pick(s, WeibullDraws) * WeibullScale(prob), 100)))
\* the censoring time when the history cap is left out
CensoringTimeAtTerm(loan_term, max_history_months) == loan_term

\* line 189: min(loan_terms[i], max_history_months)
CensoringTime(loan_term, max_history_months) == Min(loan_term, max_history_months)

\* lines 176-189: only a defaulted loan draws, in index order
TimeToEvents(n, flags, terms, probs, max_history_months, np) ==
    [i \in 1..n |->
        IF flags[i] = 1
        THEN TimeToDefault(terms[i], probs[i],
                           NpAdv(np, Cardinality({j \in 1..i : flags[j] = 1})))
        ELSE CensoringTime(terms[i], max_history_months)]

\* ------------------------------------------------------------------ state
VARIABLES
    cfg,              \* the arguments of the call
    pc,               \* the place the run has reached
    err,              \* the exception that ended the run, "" if none
    py_state,         \* the state of the `random` stream
    np_state,         \* the state of the `np.random` stream
    draws,            \* random draws consumed since the run began
    st,               \* the lists generate_synthetic_loan_data builds
    static_loan_df,   \* the static table, one record a loan
    macro,            \* inflation_rates, unemployment_rates, exchange_rates
    tv,               \* the loop variables of generate_time_varying_data
    time_varying_rows,\* the panel rows appended so far
    report,           \* the counts of validate_dataset_consistency
    saved,            \* the tables written by to_csv and returned
    run,              \* 1 for the first call in the process, 2 for the second
    first,            \* the tables of the first call, kept for comparison
    seed,             \* the seed both streams are given at import
    db,               \* the PostgreSQL tables postgres_loader.py writes
    push,             \* the run of push_historical_data.py
    api               \* a request to loan_prediction_api.py

vars == <<cfg, pc, err, py_state, np_state, draws, st, static_loan_df, macro, tv,
          time_varying_rows, report, saved, run, first, seed, db, push, api>>

EmptyLists ==
    [loan_ids |-> <<>>, customer_ids |-> <<>>, origination_dates |-> <<>>,
     product_types_data |-> <<>>, loan_amounts |-> <<>>, interest_rates |-> <<>>,
     loan_terms |-> <<>>, collateral_values |-> <<>>, ltv_ratios |-> <<>>,
     credit_scores |-> <<>>, monthly_incomes |-> <<>>, dti_ratios |-> <<>>,
     ages |-> <<>>, employment_years |-> <<>>, provinces_data |-> <<>>,
     urban_rural_data |-> <<>>, default_probs |-> <<>>, indices_by_risk |-> <<>>,
     default_flags |-> <<>>, time_to_events |-> <<>>, observed_flags |-> <<>>]

EmptyMacro ==
    [max_months |-> 0, inflation_rates |-> <<>>, unemployment_rates |-> <<>>,
     exchange_rates |-> <<>>]

\* payment_status and days_past_due are unbound until a branch assigns them;
\* used is the number of draws the branch taken in the last month consumed
Unbound == "unbound"
EmptyLoop ==
    [idx |-> 0, month |-> 0, months_to_generate |-> 0, remaining_balance |-> 0,
     payment_amount |-> 0, payment_status |-> Unbound, days_past_due |-> 0 - 1,
     used |-> 0]

NoReport == [ran |-> FALSE]
NoTables == [written |-> FALSE]
NoDb == [loaded |-> FALSE]
NoPush == [pc |-> "idle"]
NoRequest == [pc |-> "idle"]

\* the state a call starts from: nothing built, the streams as they stand
Fresh(c, seed_py, seed_np, r, f) ==
    /\ cfg = c
    /\ pc = "ids"
    /\ err = ""
    /\ py_state = seed_py
    /\ np_state = seed_np
    /\ draws = 0
    /\ st = EmptyLists
    /\ static_loan_df = <<>>
    /\ macro = EmptyMacro
    /\ tv = EmptyLoop
    /\ time_varying_rows = <<>>
    /\ report = NoReport
    /\ saved = NoTables
    /\ run = r
    /\ first = f
    /\ db = NoDb
    /\ push = NoPush
    /\ api = NoRequest

\* the configurations section 6 of the specification declares valid, run
\* through the driver
HistoryChoices == {1, 3, 24}
ValidConfigs ==
    [num_loans : 1..MaxLoans, rate_num : 0..RateDen,
     max_history_months : HistoryChoices,
     start_date : {0}, end_date : {DefaultDaysRange}, driver : {TRUE}]

\* the configurations section 7 declares invalid, one argument wrong at a time:
\* a rate outside [0,1], no loans, no history, an empty origination window
\* (the last through generate_synthetic_loan_data, which takes the dates)
BadRateConfigs ==
    [num_loans : 1..MaxLoans, rate_num : {0 - 1, RateDen + 1, 2 * RateDen},
     max_history_months : HistoryChoices,
     start_date : {0}, end_date : {DefaultDaysRange}, driver : {TRUE}]
BadSizeConfigs ==
    [num_loans : {0 - 1, 0}, rate_num : 0..RateDen,
     max_history_months : HistoryChoices,
     start_date : {0}, end_date : {DefaultDaysRange}, driver : {TRUE, FALSE}]
BadHistoryConfigs ==
    [num_loans : 1..MaxLoans, rate_num : 0..RateDen,
     max_history_months : {0 - 1, 0},
     start_date : {0}, end_date : {DefaultDaysRange}, driver : {TRUE}]
BadWindowConfigs ==
    [num_loans : 1..MaxLoans, rate_num : 0..RateDen,
     max_history_months : HistoryChoices,
     start_date : {0}, end_date : {0 - 30, 0}, driver : {FALSE}]
AnyConfigs ==
    ValidConfigs \cup BadRateConfigs \cup BadSizeConfigs \cup BadHistoryConfigs
    \cup BadWindowConfigs

Error(kind) == /\ pc' = "error" /\ err' = kind

\* lines 45-54: ids, customer ids, origination dates
GenerateIds ==
    /\ pc = "ids"
    /\ LET n == cfg.num_loans
           k == Max(n, 0)
           days_range == cfg.end_date - cfg.start_date
           py1 == PyAdv(py_state, k)
           ids == [st EXCEPT !.loan_ids = LoanIds(n),
                             !.customer_ids = CustomerIds(n, py_state)]
       IN  IF k > 0 /\ days_range < 0
           THEN \* random.randint(0, days_range) raises ValueError
                /\ Error("ValueError")
                /\ st' = ids
                /\ py_state' = py1
                /\ draws' = draws + k
           ELSE /\ pc' = "loans"
                /\ err' = err
                /\ st' = [ids EXCEPT !.origination_dates =
                             OriginationDates(n, py1, cfg.start_date, days_range)]
                /\ py_state' = PyAdv(py1, k)
                /\ draws' = draws + 2 * k
    /\ UNCHANGED <<cfg, np_state, static_loan_df, macro, tv, time_varying_rows,
                   report, saved, run, first, seed, db, push, api>>

\* lines 56-86: product, amount, rate, term, collateral, ltv
GenerateLoans ==
    /\ pc = "loans"
    /\ LET n == cfg.num_loans
           k == Max(n, 0)
           py1 == PyAdv(py_state, k)
           products == ProductTypes(n, py_state)
           amounts == LoanAmounts(n, products, np_state)
           collaterals == CollateralValues(n, products, amounts, np_state)
       IN  /\ st' = [st EXCEPT !.product_types_data = products,
                               !.loan_amounts = amounts,
                               !.interest_rates = InterestRates(n, products, np_state),
                               !.loan_terms = LoanTerms(n, products, py1),
                               !.collateral_values = collaterals,
                               !.ltv_ratios = LtvRatios(n, amounts, collaterals)]
           /\ py_state' = PyAdv(py1, k)
           /\ np_state' = NpAdv(np_state, 3 * k)
           /\ draws' = draws + 5 * k
    /\ pc' = "borrowers"
    /\ UNCHANGED <<cfg, err, static_loan_df, macro, tv, time_varying_rows, report,
                   saved, run, first, seed, db, push, api>>

\* lines 88-118: credit score, income, dti, age, employment, province, urban
GenerateBorrowers ==
    /\ pc = "borrowers"
    /\ LET n == cfg.num_loans
           np1 == NpAdv(np_state, n)
           np2 == NpAdv(np1, n)
           np3 == NpAdv(np2, n)
           np4 == NpAdv(np3, n)
           incomes == MonthlyIncomes(n, st.loan_amounts, np1)
       IN  IF n < 0
           THEN \* np.random.normal(700, 70, num_loans) raises ValueError
                /\ Error("ValueError")
                /\ UNCHANGED <<st, py_state, np_state, draws>>
           ELSE /\ pc' = "defaults"
                /\ err' = err
                /\ st' = [st EXCEPT
                       !.credit_scores = CreditScores(n, np_state),
                       !.monthly_incomes = incomes,
                       !.dti_ratios = DtiRatios(n, st.loan_amounts, incomes, st.loan_terms,
                                                st.interest_rates, np2),
                       !.ages = Ages(n, np3),
                       !.employment_years = EmploymentYears(n, np4),
                       !.provinces_data = Provinces(n, py_state),
                       !.urban_rural_data = UrbanRural(n, PyAdv(py_state, n))]
                /\ py_state' = PyAdv(py_state, 2 * n)
                /\ np_state' = NpAdv(np4, n)
                /\ draws' = draws + 7 * n
    /\ UNCHANGED <<cfg, static_loan_df, macro, tv, time_varying_rows, report, saved,
                   run, first, seed, db, push, api>>

\* lines 120-173: risk factors, ranking, default flags
AssignDefaults ==
    /\ pc = "defaults"
    /\ LET n == cfg.num_loans
           probs == [i \in 1..n |->
                        DefaultProb(st.credit_scores[i], st.dti_ratios[i], st.ltv_ratios[i],
                                    st.product_types_data[i], st.provinces_data[i],
                                    st.urban_rural_data[i], st.employment_years[i])]
           indices_by_risk == IndicesByRisk(probs)
           target_defaults == TargetDefaults(n, cfg.rate_num)
           flags == DefaultFlags(n, indices_by_risk, target_defaults)
       IN  /\ st' = [st EXCEPT !.default_probs = probs,
                               !.indices_by_risk = indices_by_risk,
                               !.default_flags = flags,
                               !.observed_flags = flags,
                               !.time_to_events = [i \in 1..n |-> 0]]
           /\ IF target_defaults > n
              THEN \* indices_by_risk[i] raises IndexError at i = num_loans
                   Error("IndexError")
              ELSE pc' = "times" /\ err' = err
    /\ UNCHANGED <<cfg, py_state, np_state, draws, static_loan_df, macro, tv,
                   time_varying_rows, report, saved, run, first, seed, db, push, api>>

\* lines 192-215: the DataFrame, a record a loan
StaticRow(l, i) ==
    [loan_id |-> l.loan_ids[i], customer_id |-> l.customer_ids[i],
     product_type |-> l.product_types_data[i], loan_amount |-> l.loan_amounts[i],
     interest_rate |-> l.interest_rates[i], loan_term |-> l.loan_terms[i],
     collateral_value |-> l.collateral_values[i], ltv_ratio |-> l.ltv_ratios[i],
     origination_date |-> l.origination_dates[i], credit_score |-> l.credit_scores[i],
     monthly_income |-> l.monthly_incomes[i], dti_ratio |-> l.dti_ratios[i],
     age |-> l.ages[i], employment_years |-> l.employment_years[i],
     province |-> l.provinces_data[i], urban_rural |-> l.urban_rural_data[i],
     time_to_event |-> l.time_to_events[i], default_flag |-> l.default_flags[i],
     observed |-> l.observed_flags[i], event_timestamp |-> l.origination_dates[i]]

\* lines 175-221: times to event, then the table is built and returned
AssignTimes ==
    /\ pc = "times"
    /\ LET n == cfg.num_loans
           times == TimeToEvents(n, st.default_flags, st.loan_terms, st.default_probs,
                                 cfg.max_history_months, np_state)
           defaulted == Cardinality({i \in 1..n : st.default_flags[i] = 1})
           lists == [st EXCEPT !.time_to_events = times]
       IN  /\ st' = lists
           /\ static_loan_df' = [i \in 1..n |-> StaticRow(lists, i)]
           /\ np_state' = NpAdv(np_state, defaulted)
           /\ draws' = draws + defaulted
    /\ pc' = IF cfg.driver THEN "macro" ELSE "done"
    /\ UNCHANGED <<cfg, err, py_state, macro, tv, time_varying_rows, report, saved,
                   run, first, seed, db, push, api>>

\* ------------------------------------------------- macroeconomic path
\* lines 249-251: base_inflation 5.3, base_unemployment 5.5, base_exchange_rate
base_inflation == 530
base_unemployment == 55
base_exchange_rate == 15200

\* representative draws of normal(0, 0.15) and normal(0, 0.1), in 1/10000,
\* and of normal(0, 50), in hundredths
InflationNoise == <<0 - 4500, 0 - 1500, 0, 1500, 4500>>
UnemploymentNoise == <<0 - 3000, 0 - 1000, 0, 1000, 3000>>
ExchangeNoise == <<0 - 15000, 0 - 5000, 0, 5000, 15000>>

\* sin(i * pi / 6), in thousandths
SinTable == <<500, 866, 1000, 866, 500, 0, 0 - 500, 0 - 866, 0 - 1000, 0 - 866, 0 - 500, 0>>
Sin6(i) == SinTable[((i - 1) % 12) + 1]

\* lines 241-245
MaxOf(S) == CHOOSE x \in S : \A y \in S : y <= x
MaxMonths(static, max_history_months) ==
    LET max_required_months ==
            Max(MaxOf({static[i].loan_term : i \in 1..Len(static)}),
                MaxOf({static[i].time_to_event : i \in 1..Len(static)}))
    IN  Max(max_required_months + 12, max_history_months + 12)

\* the inflation of month i > 1 when the clamp of line 267 is left out
NextInflationUnclamped(prev, i, s) ==
    RoundHalfEven(prev * 80 + Pick(s, InflationNoise) + Sin6(i), 100)

\* lines 263-268, 271-276, 279-284: the entry of month i > 1 from the one before
NextInflation(prev, i, s) ==
    LET x == prev * 80 + Pick(s, InflationNoise) + Sin6(i)
    IN  RoundHalfEven(Max(40000, Min(80000, x)), 100)
NextUnemployment(prev, i, s) ==
    LET x == prev * 900 + Pick(s, UnemploymentNoise) + Sin6(i) \div 2
    IN  RoundHalfEven(Max(45000, Min(70000, x)), 1000)
NextExchangeRate(prev, s) ==
    LET x == prev * 95 + base_exchange_rate * 5 + Pick(s, ExchangeNoise)
    IN  Max(1400000, Min(1650000, x)) \div 100

\* lines 238-259: the horizon; the three lists start empty
StartMacro ==
    /\ pc = "macro"
    /\ IF Len(static_loan_df) = 0
       THEN \* max() of an empty column is nan and range(1, nan + 1) raises
            /\ Error("TypeError")
            /\ UNCHANGED macro
       ELSE /\ macro' = [EmptyMacro EXCEPT !.max_months =
                            MaxMonths(static_loan_df, cfg.max_history_months)]
            /\ pc' = "macro_month"
            /\ err' = err
    /\ UNCHANGED <<cfg, py_state, np_state, draws, st, static_loan_df, tv,
                   time_varying_rows, report, saved, run, first, seed, db, push, api>>

\* the months when the range stops one short, range(1, max_months)
months_without_last(max_months) == 1..(max_months - 1)

\* line 254: months = range(1, max_months + 1)
months(max_months) == 1..max_months

\* lines 261-284: month i of the loop; a month after the first takes three draws
MacroMonth ==
    /\ pc = "macro_month"
    /\ LET i == Len(macro.inflation_rates) + 1
           s1 == NpNext(np_state)
           s2 == NpNext(s1)
           s3 == NpNext(s2)
       IN  /\ IF i = 1
              THEN /\ macro' = [macro EXCEPT
                          !.inflation_rates = <<base_inflation>>,
                          !.unemployment_rates = <<base_unemployment>>,
                          !.exchange_rates = <<base_exchange_rate>>]
                   /\ UNCHANGED <<np_state, draws>>
              ELSE /\ macro' = [macro EXCEPT
                          !.inflation_rates = Append(@, NextInflation(@[i - 1], i, s1)),
                          !.unemployment_rates = Append(@, NextUnemployment(@[i - 1], i, s2)),
                          !.exchange_rates = Append(@, NextExchangeRate(@[i - 1], s3))]
                   /\ np_state' = s3
                   /\ draws' = draws + 3
           /\ pc' = IF i + 1 \in months(macro.max_months) THEN "macro_month" ELSE "loan"
    /\ UNCHANGED <<cfg, err, py_state, st, static_loan_df, tv, time_varying_rows,
                   report, saved, run, first, seed, db, push, api>>

\* ------------------------------------------------------ panel generator
\* the months generated when a censored loan runs to max_history_months
MonthsToGenerateHistory(default_flag, time_to_event, max_history_months) ==
    IF default_flag = 1 THEN time_to_event ELSE max_history_months

\* lines 305-311: both branches take time_to_event
MonthsToGenerate(default_flag, time_to_event, max_history_months) ==
    IF default_flag = 1 THEN time_to_event ELSE time_to_event

\* lines 290-314: the next loan of iterrows(); its payment and first balance
StartLoan ==
    /\ pc = "loan"
    /\ tv.idx < Len(static_loan_df)
    /\ LET loan == static_loan_df[tv.idx + 1]
           months_to_generate == MonthsToGenerate(loan.default_flag, loan.time_to_event,
                                                  cfg.max_history_months)
       IN  /\ tv' = [tv EXCEPT !.idx = tv.idx + 1,
                               !.month = 1,
                               !.months_to_generate = months_to_generate,
                               !.payment_amount = Annuity(loan.loan_amount,
                                                          loan.interest_rate, loan.loan_term),
                               !.remaining_balance = loan.loan_amount]
           /\ pc' = IF months_to_generate >= 1 THEN "month" ELSE "loan"
    /\ UNCHANGED <<cfg, err, py_state, np_state, draws, st, static_loan_df, macro,
                   time_varying_rows, report, saved, run, first, seed, db, push, api>>

\* the balance when the interest is taken at the yearly rate
RemainingBalanceYearlyRate(month, loan_amount, remaining_balance, payment_amount, rate) ==
    IF month = 1 THEN loan_amount
    ELSE LET principal_payment == payment_amount - MulDiv(remaining_balance, rate, 1000)
         IN  Max(0, remaining_balance - principal_payment)

\* lines 322-327
RemainingBalance(month, loan_amount, remaining_balance, payment_amount, rate) ==
    IF month = 1 THEN loan_amount
    ELSE LET principal_payment == payment_amount - MulDiv(remaining_balance, rate, 12000)
         IN  Max(0, remaining_balance - principal_payment)

\* a band drawn with np.random.randint(lo - 1, hi + 1)
BandFromBelow(status, lo, hi, s) ==
    [payment_status |-> status, days_past_due |-> lo - 1 + Uniform(s, hi - lo + 2),
     used |-> 2]

\* a band of the ladder: the status and np.random.randint(lo, hi + 1)
Band(status, lo, hi, s) ==
    [payment_status |-> status, days_past_due |-> lo + Uniform(s, hi - lo + 1), used |-> 2]

\* the default month drawn with np.random.randint(61, 121)
DefaultMonthFrom61(s) ==
    [payment_status |-> "90+", days_past_due |-> 61 + Uniform(s, 60), used |-> 1]

\* lines 382-385: the default month, np.random.randint(91, 121)
DefaultMonth(s) ==
    [payment_status |-> "90+", days_past_due |-> 91 + Uniform(s, 30), used |-> 1]
OnTime == [payment_status |-> "On Time", days_past_due |-> 0, used |-> 1]

\* the ladder when the three months before the default are treated as any
\* other month
LadderWithoutRunUp(default_flag, month, time_to_event, s1, s2, held) ==
    LET rand == Uniform(s1, 100)
    IN  IF default_flag = 1 /\ month = time_to_event
        THEN DefaultMonth(s1)
        ELSE IF rand < 85 THEN OnTime
        ELSE IF rand < 95 THEN Band("0+", 1, 30, s2)
        ELSE Band("30+", 31, 60, s2)

\* lines 337-385: rand is the first draw, the days past due the second; when
\* no branch is taken the two variables keep what they held
Ladder(default_flag, month, time_to_event, s1, s2, held) ==
    LET rand == Uniform(s1, 100)
    IN  IF default_flag = 0 \/ month < time_to_event - 3
        THEN IF rand < 85 THEN OnTime
             ELSE IF rand < 95 THEN Band("0+", 1, 30, s2)
             ELSE Band("30+", 31, 60, s2)
        ELSE IF month = time_to_event - 3
        THEN IF rand < 30 THEN OnTime
             ELSE IF rand < 70 THEN Band("0+", 1, 30, s2)
             ELSE Band("30+", 31, 60, s2)
        ELSE IF month = time_to_event - 2
        THEN IF rand < 20 THEN Band("0+", 1, 30, s2)
             ELSE IF rand < 60 THEN Band("30+", 31, 60, s2)
             ELSE Band("60+", 61, 90, s2)
        ELSE IF month = time_to_event - 1
        THEN IF rand < 30 THEN Band("30+", 31, 60, s2)
             ELSE Band("60+", 61, 90, s2)
        ELSE IF month = time_to_event /\ default_flag = 1
        THEN DefaultMonth(s1)
        ELSE [payment_status |-> held.payment_status,
              days_past_due |-> held.days_past_due, used |-> 0]

\* the override when it is also applied in the month before the default
FinalStatusFromMonthBefore(default_flag, month, time_to_event, payment_status) ==
    IF default_flag = 1 /\ month >= time_to_event - 1 THEN "90+" ELSE payment_status

\* lines 394-396
FinalStatus(default_flag, month, time_to_event, payment_status) ==
    IF default_flag = 1 /\ month = time_to_event THEN "90+" ELSE payment_status

\* the index when the month itself is taken as the 0-based index
macro_idx_of_next_month(month) == month

\* line 389: macro_idx = month - 1, the 0-based index into the three lists
macro_idx(month) == month - 1

\* lines 318-411: one month of the current loan, appended as a row
PanelMonth ==
    /\ pc = "month"
    /\ LET loan == static_loan_df[tv.idx]
           month == tv.month
           observation_date == loan.origination_date + 30 * month
           balance == RemainingBalance(month, loan.loan_amount, tv.remaining_balance,
                                       tv.payment_amount, loan.interest_rate)
           s1 == NpNext(np_state)
           s2 == NpNext(s1)
           b == Ladder(loan.default_flag, month, loan.time_to_event, s1, s2, tv)
           row == [loan_id |-> loan.loan_id,
                   observation_date |-> observation_date,
                   month |-> month,
                   payment_status |-> FinalStatus(loan.default_flag, month,
                                                  loan.time_to_event, b.payment_status),
                   days_past_due |-> b.days_past_due,
                   remaining_balance |-> balance,
                   payment_amount |-> tv.payment_amount,
                   inflation_rate |-> macro.inflation_rates[macro_idx(month) + 1],
                   unemployment_rate |-> macro.unemployment_rates[macro_idx(month) + 1],
                   exchange_rate |-> macro.exchange_rates[macro_idx(month) + 1],
                   event_timestamp |-> observation_date]
       IN  /\ np_state' = NpAdv(np_state, b.used)
           /\ draws' = draws + b.used
           /\ IF b.payment_status = Unbound
              THEN \* the row reads a variable no branch has assigned
                   /\ Error("UnboundLocalError")
                   /\ UNCHANGED <<tv, time_varying_rows>>
              ELSE /\ time_varying_rows' = Append(time_varying_rows, row)
                   /\ tv' = [tv EXCEPT !.month = month + 1,
                                       !.remaining_balance = balance,
                                       !.payment_status = row.payment_status,
                                       !.days_past_due = row.days_past_due,
                                       !.used = b.used]
                   /\ pc' = IF month + 1 <= tv.months_to_generate THEN "month" ELSE "loan"
                   /\ err' = err
    /\ UNCHANGED <<cfg, py_state, st, static_loan_df, macro, report, saved, run, first, seed, db, push, api>>

\* lines 413-415: every loan done, the rows become the panel table
FinishPanel ==
    /\ pc = "loan"
    /\ tv.idx = Len(static_loan_df)
    /\ pc' = "validate"
    /\ UNCHANGED <<cfg, err, py_state, np_state, draws, st, static_loan_df, macro, tv,
                   time_varying_rows, report, saved, run, first, seed, db, push, api>>

\* ------------------------------------------------------------ validator
RowsOf(panel, loan_id) == {k \in 1..Len(panel) : panel[k].loan_id = loan_id}

\* lines 504-513: a row whose status and days past due disagree
BandViolation(status, dpd) ==
    \/ status = "On Time" /\ dpd # 0
    \/ status = "0+" /\ (dpd <= 0 \/ dpd > 30)
    \/ status = "30+" /\ (dpd <= 30 \/ dpd > 60)
    \/ status = "60+" /\ (dpd <= 60 \/ dpd > 90)
    \/ status = "90+" /\ dpd <= 90

\* the mismatch when the number of rows is compared instead of the last month
TimingMismatchByRowCount(static, panel, i) ==
    LET rows == RowsOf(panel, static[i].loan_id)
    IN  /\ rows # {}
        /\ Cardinality(rows) # static[i].time_to_event

\* lines 461-467: a loan with rows whose last month is not its time_to_event
TimingMismatch(static, panel, i) ==
    LET rows == RowsOf(panel, static[i].loan_id)
    IN  /\ rows # {}
        /\ MaxOf({panel[k].month : k \in rows}) # static[i].time_to_event

\* lines 470-479: a defaulted loan with rows that never passes 90 days past
\* due, or first passes it in another month; printed, not counted
DefaultStatusError(static, panel, i) ==
    LET rows == RowsOf(panel, static[i].loan_id)
        default_months == {k \in rows : panel[k].days_past_due > 90}
    IN  /\ rows # {}
        /\ static[i].default_flag = 1
        /\ \/ default_months = {}
           \/ (CHOOSE m \in {panel[k].month : k \in default_months} :
                  \A k \in default_months : m <= panel[k].month) # static[i].time_to_event

\* lines 523-548: the issues of loan i, none when it has no month-1 row
FinancialIssues(static, panel, i) ==
    LET loan == static[i]
        expected_payment == Annuity(loan.loan_amount, loan.interest_rate, loan.loan_term)
        firsts == {k \in RowsOf(panel, loan.loan_id) : panel[k].month = 1}
    IN  IF firsts = {} THEN 0
        ELSE LET f == panel[CHOOSE k \in firsts : \A j \in firsts : k <= j]
             IN  (IF Abs(f.remaining_balance - loan.loan_amount) > 1 THEN 1 ELSE 0)
                 + (IF Abs(f.payment_amount - expected_payment) > 1 THEN 1 ELSE 0)

\* lines 428-562: the six counts and their sum
Validate(static, panel) ==
    LET static_loan_ids == {static[i].loan_id : i \in 1..Len(static)}
        time_varying_loan_ids == {panel[k].loan_id : k \in 1..Len(panel)}
        loans == 1..Len(static)
        r == [ran |-> TRUE,
              missing_in_panel |->
                  Cardinality(static_loan_ids \ time_varying_loan_ids),
              missing_in_static |->
                  Cardinality(time_varying_loan_ids \ static_loan_ids),
              timing_mismatch_defaulted |->
                  Cardinality({i \in loans : static[i].default_flag = 1
                                             /\ TimingMismatch(static, panel, i)}),
              timing_mismatch_censored |->
                  Cardinality({i \in loans : static[i].default_flag # 1
                                             /\ TimingMismatch(static, panel, i)}),
              payment_band_violations |->
                  Cardinality({k \in 1..Len(panel) :
                      /\ panel[k].loan_id \in static_loan_ids
                      /\ BandViolation(panel[k].payment_status, panel[k].days_past_due)}),
              financial_mismatches |->
                  SumSeq([i \in loans |-> FinancialIssues(static, panel, i)]),
              default_status_errors |->
                  Cardinality({i \in loans : DefaultStatusError(static, panel, i)})]
    IN  [r EXCEPT !.ran = TRUE] @@
        [issues_found |-> r.missing_in_panel + r.missing_in_static
                          + r.timing_mismatch_defaulted + r.timing_mismatch_censored
                          + r.payment_band_violations + r.financial_mismatches]

\* ---------------------------------------------------------------- driver
\* the driver when it raises on a report that counts an issue
RunValidatorAborting ==
    /\ pc = "validate"
    /\ IF time_varying_rows = <<>>
       THEN Error("KeyError") /\ UNCHANGED report
       ELSE /\ report' = Validate(static_loan_df, time_varying_rows)
            /\ IF Validate(static_loan_df, time_varying_rows).issues_found > 0
               THEN Error("ValueError")
               ELSE pc' = "preview" /\ err' = err
    /\ UNCHANGED <<cfg, py_state, np_state, draws, st, static_loan_df, macro, tv,
                   time_varying_rows, saved, run, first, seed, db, push, api>>

\* lines 598-600; a panel without rows is a DataFrame without columns, and
\* time_varying_df['loan_id'] (line 430) raises KeyError
RunValidator ==
    /\ pc = "validate"
    /\ IF time_varying_rows = <<>>
       THEN Error("KeyError") /\ UNCHANGED report
       ELSE /\ report' = Validate(static_loan_df, time_varying_rows)
            /\ pc' = "preview"
            /\ err' = err
    /\ UNCHANGED <<cfg, py_state, np_state, draws, st, static_loan_df, macro, tv,
                   time_varying_rows, saved, run, first, seed, db, push, api>>

\* lines 602-611: the preview takes the first defaulted loan
Preview ==
    /\ pc = "preview"
    /\ IF \E i \in 1..Len(static_loan_df) : static_loan_df[i].default_flag = 1
       THEN pc' = "export" /\ err' = err
       ELSE \* .iloc[0] of an empty selection raises IndexError
            Error("IndexError")
    /\ UNCHANGED <<cfg, py_state, np_state, draws, st, static_loan_df, macro, tv,
                   time_varying_rows, report, saved, run, first, seed, db, push, api>>

\* lines 613-622: both tables written and returned
Export ==
    /\ pc = "export"
    /\ saved' = [written |-> TRUE, static |-> static_loan_df, panel |-> time_varying_rows]
    /\ pc' = "done"
    /\ UNCHANGED <<cfg, err, py_state, np_state, draws, st, static_loan_df, macro, tv,
                   time_varying_rows, report, run, first, seed, db, push, api>>

\* postgres_loader.py, main (lines 81-91) and load_data_to_postgres (lines
\* 23-69): the tables the driver returned are written to PostgreSQL; any
\* exception of the connection or of a statement makes the call return False
LoadDataToPostgres ==
    /\ pc = "done"
    /\ cfg.driver
    /\ saved.written
    /\ db = NoDb
    /\ \E success \in BOOLEAN :
           db' = IF success
                 THEN [loaded |-> TRUE, bfi_static_loan_data |-> saved.static,
                       bfi_time_varying_data |-> saved.panel]
                 ELSE [loaded |-> FALSE, failed |-> TRUE]
    /\ UNCHANGED <<cfg, pc, err, py_state, np_state, draws, st, static_loan_df, macro,
                   tv, time_varying_rows, report, saved, run, first, seed, push, api>>

\* ---------------------------------------------------------- specification
\* after import (lines 8-9) both streams hold the seed
Init ==
    \E c \in ValidConfigs : \E s \in Seeds : seed = s /\ Fresh(c, s, s, 1, NoTables)

InitAnyConfig ==
    \E c \in AnyConfigs : \E s \in Seeds : seed = s /\ Fresh(c, s, s, 1, NoTables)

Next ==
    \/ GenerateIds
    \/ GenerateLoans
    \/ GenerateBorrowers
    \/ AssignDefaults
    \/ AssignTimes
    \/ StartMacro
    \/ MacroMonth
    \/ StartLoan
    \/ PanelMonth
    \/ FinishPanel
    \/ RunValidator
    \/ Preview
    \/ Export
    \/ LoadDataToPostgres

Spec == Init /\ [][Next]_vars

\* a second call of the driver with the same arguments: everything the first
\* call built is local to it, the streams are module state
SecondCall(seed_py, seed_np) ==
    /\ pc' = "ids"
    /\ err' = ""
    /\ py_state' = seed_py
    /\ np_state' = seed_np
    /\ draws' = 0
    /\ st' = EmptyLists
    /\ static_loan_df' = <<>>
    /\ macro' = EmptyMacro
    /\ tv' = EmptyLoop
    /\ time_varying_rows' = <<>>
    /\ report' = NoReport
    /\ saved' = NoTables
    /\ run' = 2
    /\ first' = saved
    /\ UNCHANGED <<cfg, seed, db, push, api>>

\* the second call in the process of the first: nothing reseeds the streams
RunAgainSameProcess ==
    /\ pc = "done"
    /\ cfg.driver
    /\ run = 1
    /\ SecondCall(py_state, np_state)

\* the second call in a fresh process: the import seeds both streams again
\* (lines 8-9)
RunAgainFreshProcess ==
    /\ pc = "done"
    /\ cfg.driver
    /\ run = 1
    /\ SecondCall(seed, seed)

NextRerun ==
    \/ Next
    \/ RunAgainSameProcess
    \/ RunAgainFreshProcess

SpecRerun == Init /\ [][NextRerun]_vars

SpecAnyConfig == InitAnyConfig /\ [][Next]_vars

\* ------------------------------------------------ validator on any tables
\* validate_dataset_consistency(static_df, time_varying_df) takes any two
\* tables (lines 417-427).  The tables are built a row at a time, then handed
\* to the rest of the driver (lines 598-622) in the place of the generated
\* ones.  A loan carries the columns the validator and the preview read.
TableLoan(loan_id, default_flag, time_to_event) ==
    [loan_id |-> loan_id, loan_amount |-> 10000000, interest_rate |-> 150,
     loan_term |-> 12, time_to_event |-> time_to_event,
     default_flag |-> default_flag, observed |-> default_flag]

\* the loan ids a panel row may carry: the first two of line 46 and one that
\* no static table holds
TableLoanIds == {10000, 10001, 10002}
TableMonths == {1, 2}

\* the kinds of row: on time, late within its band, in default, outside its
\* band, and with a balance that is not the loan amount
RowKinds ==
    {[payment_status |-> "On Time", days_past_due |-> 0, balance_off |-> 0],
     [payment_status |-> "60+", days_past_due |-> 70, balance_off |-> 0],
     [payment_status |-> "90+", days_past_due |-> 95, balance_off |-> 0],
     [payment_status |-> "On Time", days_past_due |-> 5, balance_off |-> 0],
     [payment_status |-> "On Time", days_past_due |-> 0, balance_off |-> 5000]}

TableRow(loan_id, month, kind) ==
    [loan_id |-> loan_id, observation_date |-> 30 * month, month |-> month,
     payment_status |-> kind.payment_status, days_past_due |-> kind.days_past_due,
     remaining_balance |-> 10000000 - kind.balance_off,
     payment_amount |-> Annuity(10000000, 150, 12),
     inflation_rate |-> base_inflation, unemployment_rate |-> base_unemployment,
     exchange_rate |-> base_exchange_rate, event_timestamp |-> 30 * month]

\* one more loan in the static table; the ids follow line 46
AppendLoan ==
    /\ pc = "tables"
    /\ time_varying_rows = <<>>
    /\ Len(static_loan_df) < MaxTableLoans
    /\ \E default_flag \in {0, 1} : \E time_to_event \in TableMonths :
           static_loan_df' = Append(static_loan_df,
               TableLoan(10001 + Len(static_loan_df), default_flag, time_to_event))
    /\ UNCHANGED <<cfg, pc, err, py_state, np_state, draws, st, macro, tv,
                   time_varying_rows, report, saved, run, first, seed, db, push, api>>

\* one more row in the panel table, of any loan id, month and kind.  The
\* validator reads the panel through filters on loan_id and month, max(), min()
\* and the first month-1 row of a loan, so only the order of rows with the same
\* loan_id and month matters: the rows are appended in (loan_id, month) order.
AppendRow ==
    /\ pc = "tables"
    /\ Len(time_varying_rows) < MaxTableRows
    /\ \E loan_id \in TableLoanIds : \E month \in TableMonths : \E kind \in RowKinds :
           /\ time_varying_rows # <<>> =>
                  LET last == time_varying_rows[Len(time_varying_rows)]
                  IN  \/ last.loan_id < loan_id
                      \/ last.loan_id = loan_id /\ last.month <= month
           /\ time_varying_rows' = Append(time_varying_rows, TableRow(loan_id, month, kind))
    /\ UNCHANGED <<cfg, pc, err, py_state, np_state, draws, st, static_loan_df, macro,
                   tv, report, saved, run, first, seed, db, push, api>>

\* lines 598-600: the two tables reach validate_dataset_consistency
TablesReturned ==
    /\ pc = "tables"
    /\ static_loan_df # <<>>
    /\ pc' = "validate"
    /\ UNCHANGED <<cfg, err, py_state, np_state, draws, st, static_loan_df, macro, tv,
                   time_varying_rows, report, saved, run, first, seed, db, push, api>>

\* the generator's variables when no run of it builds the tables: the
\* arguments play no part, cfg only says that the call is the driver's
GeneratorAt(place) ==
    /\ cfg = [num_loans |-> 0, rate_num |-> 0, max_history_months |-> 24,
              start_date |-> 0, end_date |-> DefaultDaysRange, driver |-> TRUE]
    /\ pc = place
    /\ err = ""
    /\ seed = SeedValue
    /\ py_state = SeedValue
    /\ np_state = SeedValue
    /\ draws = 0
    /\ st = EmptyLists
    /\ static_loan_df = <<>>
    /\ macro = EmptyMacro
    /\ tv = EmptyLoop
    /\ time_varying_rows = <<>>
    /\ report = NoReport
    /\ saved = NoTables
    /\ run = 1
    /\ first = NoTables
    /\ db = NoDb

\* the tables are given, not generated
InitTables ==
    /\ GeneratorAt("tables")
    /\ push = NoPush
    /\ api = NoRequest

NextTables ==
    \/ AppendLoan
    \/ AppendRow
    \/ TablesReturned
    \/ RunValidator
    \/ Preview
    \/ Export

SpecTables == InitTables /\ [][NextTables]_vars

\* ------------------------------------------------------------ properties
Loans == 1..Len(static_loan_df)
Defaulted == {i \in Loans : static_loan_df[i].default_flag = 1}
Censored == {i \in Loans : static_loan_df[i].default_flag = 0}

\* generate_time_varying_data has returned: every loan's rows are in the panel
PanelComplete == pc \in {"validate", "preview", "export", "done"} \/ report.ran

\* the rows of loan i, in the order the panel holds them
LoanRows(i) ==
    LET OfLoan(r) == r.loan_id = static_loan_df[i].loan_id
    IN  SelectSeq(time_varying_rows, OfLoan)

\* C1: with num_loans >= 1 and the rate in [0,1], exactly round(rate * num_loans)
\* loans carry default_flag = 1, every other loan carries 0, and no loan with
\* flag 0 has a risk factor above that of a loan with flag 1.
C1_DefaultsAreTheRiskiest ==
    static_loan_df # <<>> =>
        /\ \A i \in Loans : static_loan_df[i].default_flag \in {0, 1}
        /\ Cardinality(Defaulted)
               = RoundHalfEven(cfg.num_loans * cfg.rate_num, RateDen)
        /\ \A i \in Censored : \A j \in Defaulted :
               st.default_probs[i] <= st.default_probs[j]

\* a defaulted loan that sits after a censored loan of lower risk
C1_Witness ==
    /\ static_loan_df # <<>>
    /\ \E i \in Censored : \E j \in Defaulted :
           i < j /\ st.default_probs[i] < st.default_probs[j]

\* C2: with max_history_months >= 1 every loan of the static table, defaulted
\* or censored, has 1 <= time_to_event <= loan_term.
C2_TimeToEventWithinTerm ==
    \A i \in Loans :
        /\ 1 <= static_loan_df[i].time_to_event
        /\ static_loan_df[i].time_to_event <= static_loan_df[i].loan_term

\* a defaulted loan held at its term, another at month 1, and a censored loan
C2_Witness ==
    /\ \E i \in Defaulted : static_loan_df[i].time_to_event = static_loan_df[i].loan_term
    /\ \E i \in Defaulted : static_loan_df[i].time_to_event = 1
    /\ Censored # {}

\* C3: in the finished panel a defaulted loan has exactly one row with
\* days_past_due > 90; it is the loan's last row, its month is time_to_event,
\* its status is 90+ and its days past due lie in 91..120; no earlier row has
\* days_past_due > 90 or status 90+.
C3_DefaultOnlyInLastMonth ==
    PanelComplete =>
        \A i \in Defaulted :
            LET rows == LoanRows(i)
                n == Len(rows)
            IN  /\ n >= 1
                /\ rows[n].month = static_loan_df[i].time_to_event
                /\ rows[n].payment_status = "90+"
                /\ rows[n].days_past_due \in 91..120
                /\ \A k \in 1..(n - 1) :
                       /\ rows[k].days_past_due <= 90
                       /\ rows[k].payment_status # "90+"
                       /\ rows[k].month < rows[n].month
                /\ Cardinality({k \in 1..n : rows[k].days_past_due > 90}) = 1

\* defaulted loans with a truncated ladder and one with the whole ladder
C3_Witness ==
    /\ PanelComplete
    /\ \E i \in Defaulted : static_loan_df[i].time_to_event \in 1..3
    /\ \E i \in Defaulted : static_loan_df[i].time_to_event >= 5

\* C4: a censored loan has time_to_event = min(loan_term, max_history_months);
\* in the finished panel its largest month is that value and none of its rows
\* has days_past_due > 90 or status 90+.
C4_CensoredAtHistoryCap ==
    /\ \A i \in Censored :
           static_loan_df[i].time_to_event
               = Min(static_loan_df[i].loan_term, cfg.max_history_months)
    /\ PanelComplete =>
           \A i \in Censored :
               LET rows == LoanRows(i)
               IN  /\ Len(rows) >= 1
                   /\ MaxOf({rows[k].month : k \in 1..Len(rows)})
                          = Min(static_loan_df[i].loan_term, cfg.max_history_months)
                   /\ \A k \in 1..Len(rows) :
                          /\ rows[k].days_past_due <= 90
                          /\ rows[k].payment_status # "90+"

\* a censored loan cut by its term and one cut by max_history_months
C4_Witness ==
    /\ PanelComplete
    /\ \E i \in Censored : static_loan_df[i].loan_term < cfg.max_history_months
    /\ \E i \in Censored : static_loan_df[i].loan_term > cfg.max_history_months

\* C5: in the finished panel the rows of every loan carry the months
\* 1, 2, ..., time_to_event, each once and in this order.
C5_MonthsOneToEvent ==
    PanelComplete =>
        \A i \in Loans :
            LET rows == LoanRows(i)
            IN  /\ Len(rows) = static_loan_df[i].time_to_event
                /\ \A k \in 1..Len(rows) : rows[k].month = k

\* a finished panel of several loans, one censored at its term below the cap
C5_Witness ==
    /\ PanelComplete
    /\ Len(static_loan_df) >= 2
    /\ \E i \in Censored : static_loan_df[i].loan_term < cfg.max_history_months
    /\ \E i \in Defaulted : static_loan_df[i].time_to_event >= 2

\* C6: the remaining_balance of a loan's rows is never negative, is the
\* loan_amount in month 1 and does not rise from one month to the next.
C6_BalanceNeverRises ==
    \A i \in Loans :
        LET rows == LoanRows(i)
        IN  \A k \in 1..Len(rows) :
                /\ rows[k].remaining_balance >= 0
                /\ rows[k].month = 1 =>
                       rows[k].remaining_balance = static_loan_df[i].loan_amount
                /\ k > 1 => rows[k].remaining_balance <= rows[k - 1].remaining_balance

\* a loan followed for a year, its balance below the amount lent
C6_Witness ==
    \E i \in Loans :
        LET rows == LoanRows(i)
        IN  /\ Len(rows) >= 12
            /\ rows[Len(rows)].remaining_balance < static_loan_df[i].loan_amount

\* C7: a second call of the driver with the same seed and arguments ends with
\* the tables of the first, in a fresh process and in the process of the first.
C7_SecondCallSameTables ==
    (run = 2 /\ PanelComplete) =>
        /\ static_loan_df = first.static
        /\ time_varying_rows = first.panel

\* C8: for a valid configuration the validator counts no issue in any of its
\* six categories on the tables the generator produced.
C8_ValidatorFindsNothing ==
    report.ran =>
        /\ report.missing_in_panel = 0
        /\ report.missing_in_static = 0
        /\ report.timing_mismatch_defaulted = 0
        /\ report.timing_mismatch_censored = 0
        /\ report.payment_band_violations = 0
        /\ report.financial_mismatches = 0

\* the validator has run on tables with defaulted, censored and late rows
C8_Witness ==
    /\ report.ran
    /\ Defaulted # {}
    /\ Censored # {}
    /\ \E k \in 1..Len(time_varying_rows) :
           time_varying_rows[k].payment_status \in {"0+", "30+", "60+"}

\* C9: a target_default_rate outside [0,1] ends the call with an error before
\* anything is generated: no list is filled, no draw is taken, no table built.
RateOutsideUnitInterval == cfg.rate_num < 0 \/ cfg.rate_num > RateDen
NothingGenerated ==
    /\ draws = 0
    /\ st = EmptyLists
    /\ static_loan_df = <<>>
    /\ time_varying_rows = <<>>
    /\ pc \in {"ids", "error"}
C9_BadRateFailsFast == RateOutsideUnitInterval => NothingGenerated

\* C10: num_loans <= 0, end_date <= start_date or max_history_months <= 0 ends
\* the call with an error before anything is generated; no loan has
\* time_to_event <= 0 and no loan of a finished panel is without rows.
BadSizeWindowOrHistory ==
    \/ cfg.num_loans <= 0
    \/ cfg.end_date <= cfg.start_date
    \/ cfg.max_history_months <= 0
C10_BadConfigFailsFast ==
    /\ BadSizeWindowOrHistory => NothingGenerated
    /\ \A i \in Loans : static_loan_df[i].time_to_event >= 1
    /\ PanelComplete => \A i \in Loans : Len(LoanRows(i)) >= 1

\* the band the specification declares for each status
InDeclaredBand(status, dpd) ==
    /\ status = "On Time" => dpd = 0
    /\ status = "0+" => dpd \in 1..30
    /\ status = "30+" => dpd \in 31..60
    /\ status = "60+" => dpd \in 61..90
    /\ status = "90+" => dpd > 90

\* the ids of the two tables
StaticIds == {static_loan_df[i].loan_id : i \in Loans}
PanelIds == {time_varying_rows[k].loan_id : k \in 1..Len(time_varying_rows)}

\* C11: the validator's total is zero only if every defaulted loan with panel
\* rows has a row with days_past_due > 90 and the first such row is in month
\* time_to_event; a defaulted loan that never passes 90 days, or first passes
\* it in another month, is counted in the total.
C11_ZeroIssuesMeansDefaultsPass90 ==
    (report.ran /\ report.issues_found = 0) =>
        \A i \in Defaulted :
            LET rows == LoanRows(i)
                over == {k \in 1..Len(rows) : rows[k].days_past_due > 90}
            IN  Len(rows) > 0 =>
                    /\ over # {}
                    /\ \E k \in over :
                           /\ rows[k].month = static_loan_df[i].time_to_event
                           /\ \A j \in over : rows[k].month <= rows[j].month

\* C12: the payment-band count is the number of rows of the panel whose status
\* and days past due do not match the declared band, rows of loan ids absent
\* from the static table included.
C12_BandCountCoversEveryRow ==
    report.ran =>
        report.payment_band_violations
            = Cardinality({k \in 1..Len(time_varying_rows) :
                  ~InDeclaredBand(time_varying_rows[k].payment_status,
                                  time_varying_rows[k].days_past_due)})

\* C13: missing_in_panel and missing_in_static count the ids of one table absent
\* from the other; the two timing counts are the defaulted and the censored
\* loans with rows whose largest month is not time_to_event; the verdict is
\* success exactly when the six counts are zero.
C13_ReportCounts ==
    report.ran =>
        /\ report.missing_in_panel = Cardinality(StaticIds \ PanelIds)
        /\ report.missing_in_static = Cardinality(PanelIds \ StaticIds)
        /\ report.timing_mismatch_defaulted
               = Cardinality({i \in Defaulted :
                     /\ Len(LoanRows(i)) > 0
                     /\ \E k \in 1..Len(LoanRows(i)) :
                            /\ \A j \in 1..Len(LoanRows(i)) :
                                   LoanRows(i)[j].month <= LoanRows(i)[k].month
                            /\ LoanRows(i)[k].month # static_loan_df[i].time_to_event})
        /\ report.timing_mismatch_censored
               = Cardinality({i \in Loans \ Defaulted :
                     /\ Len(LoanRows(i)) > 0
                     /\ \E k \in 1..Len(LoanRows(i)) :
                            /\ \A j \in 1..Len(LoanRows(i)) :
                                   LoanRows(i)[j].month <= LoanRows(i)[k].month
                            /\ LoanRows(i)[k].month # static_loan_df[i].time_to_event})
        /\ (report.issues_found = 0) <=>
               /\ report.missing_in_panel = 0
               /\ report.missing_in_static = 0
               /\ report.timing_mismatch_defaulted = 0
               /\ report.timing_mismatch_censored = 0
               /\ report.payment_band_violations = 0
               /\ report.financial_mismatches = 0

\* a loan without rows, a row without loan, and a loan whose rows stop at
\* another month than its time_to_event
C13_Witness ==
    /\ report.ran
    /\ report.missing_in_panel > 0
    /\ report.missing_in_static > 0
    /\ report.timing_mismatch_defaulted + report.timing_mismatch_censored > 0

\* the validator counted payment-band or financial issues and nothing else
OnlyNonStructuralIssues ==
    /\ report.ran
    /\ report.missing_in_panel = 0
    /\ report.missing_in_static = 0
    /\ report.timing_mismatch_defaulted = 0
    /\ report.timing_mismatch_censored = 0
    /\ report.payment_band_violations + report.financial_mismatches > 0

C15_StructuralIssueBlocksLoad ==
    (report.ran /\ report.missing_in_panel + report.missing_in_static > 0) =>
        ~db.loaded

\* C16: every generated row's days_past_due lies in the band of its status,
\* On Time 0, 0+ 1..30, 30+ 31..60, 60+ 61..90, 90+ 91..120; the 90+ forced in
\* the default month never goes with days_past_due <= 90, and every row's
\* status and days past due were assigned in its own month.
C16_DaysPastDueInBand ==
    /\ \A k \in 1..Len(time_varying_rows) :
           LET row == time_varying_rows[k]
           IN  /\ row.payment_status \in {"On Time", "0+", "30+", "60+", "90+"}
               /\ row.payment_status = "On Time" => row.days_past_due = 0
               /\ row.payment_status = "0+" => row.days_past_due \in 1..30
               /\ row.payment_status = "30+" => row.days_past_due \in 31..60
               /\ row.payment_status = "60+" => row.days_past_due \in 61..90
               /\ row.payment_status = "90+" => row.days_past_due \in 91..120
    /\ time_varying_rows # <<>> => tv.used \in {1, 2}

\* a finished panel in which each of the five statuses occurs
C16_Witness ==
    /\ PanelComplete
    /\ \A status \in {"On Time", "0+", "30+", "60+", "90+"} :
           \E k \in 1..Len(time_varying_rows) :
               time_varying_rows[k].payment_status = status

\* C17: the first entry of each macro list is its base value, and every later
\* entry lies in its clamp: inflation 4.0..8.0, unemployment 4.5..7.0,
\* exchange rate 14000..16500.
C17_MacroWithinClamps ==
    /\ \A i \in 1..Len(macro.inflation_rates) :
           IF i = 1 THEN macro.inflation_rates[i] = 530
           ELSE macro.inflation_rates[i] \in 400..800
    /\ \A i \in 1..Len(macro.unemployment_rates) :
           IF i = 1 THEN macro.unemployment_rates[i] = 55
           ELSE macro.unemployment_rates[i] \in 45..70
    /\ \A i \in 1..Len(macro.exchange_rates) :
           IF i = 1 THEN macro.exchange_rates[i] = 15200
           ELSE macro.exchange_rates[i] \in 14000..16500

\* a whole path on which the inflation clamp holds a month at 4.0 and lets
\* another month pass above it
C17_Witness ==
    /\ macro.max_months > 1
    /\ Len(macro.inflation_rates) = macro.max_months
    /\ \E i \in 2..macro.max_months : macro.inflation_rates[i] = 400
    /\ \E i \in 2..macro.max_months : macro.inflation_rates[i] > 400

\* C18: every row carries the macro entries of its month, so two rows of the
\* same month carry the same macro values, whatever their loans.
C18_RowsCopyMacroPath ==
    /\ \A k \in 1..Len(time_varying_rows) :
           LET row == time_varying_rows[k]
           IN  /\ row.inflation_rate = macro.inflation_rates[row.month]
               /\ row.unemployment_rate = macro.unemployment_rates[row.month]
               /\ row.exchange_rate = macro.exchange_rates[row.month]
    /\ \A k, j \in 1..Len(time_varying_rows) :
           time_varying_rows[k].month = time_varying_rows[j].month =>
               /\ time_varying_rows[k].inflation_rate = time_varying_rows[j].inflation_rate
               /\ time_varying_rows[k].unemployment_rate
                      = time_varying_rows[j].unemployment_rate
               /\ time_varying_rows[k].exchange_rate = time_varying_rows[j].exchange_rate

\* two loans with a row of the same later month, whose macro entries differ
\* from those of the month after
C18_Witness ==
    \E k, j \in 1..Len(time_varying_rows) :
        /\ time_varying_rows[k].loan_id # time_varying_rows[j].loan_id
        /\ time_varying_rows[k].month = time_varying_rows[j].month
        /\ time_varying_rows[k].month >= 2
        /\ macro.inflation_rates[time_varying_rows[k].month]
               # macro.inflation_rates[time_varying_rows[k].month + 1]
        /\ macro.exchange_rates[time_varying_rows[k].month]
               # macro.exchange_rates[time_varying_rows[k].month + 1]

\* C19: the length of the macro path is the largest max(loan_term,
\* time_to_event) of the static table plus 12, whatever max_history_months.
C19_HorizonFromLoansOnly ==
    macro.max_months > 0 =>
        macro.max_months
            = MaxOf({Max(static_loan_df[i].loan_term, static_loan_df[i].time_to_event) :
                        i \in Loans}) + 12

\* C20: every loan of the static table has its fields in their domains and the
\* loan ids are pairwise different.
C20_FieldsInDomain ==
    /\ \A i \in Loans :
           LET loan == static_loan_df[i]
           IN  /\ loan.product_type \in {"Motorcycle", "Car"}
               /\ loan.credit_score \in 300..850
               /\ loan.dti_ratio \in 0..90
               /\ loan.age \in 21..65
               /\ loan.employment_years \in 5..300
               /\ loan.product_type = "Motorcycle" => loan.loan_amount >= 3000000
               /\ loan.product_type = "Car" => loan.loan_amount >= 50000000
               /\ loan.default_flag \in {0, 1}
               /\ loan.observed = loan.default_flag
    /\ \A i, j \in Loans :
           i # j => static_loan_df[i].loan_id # static_loan_df[j].loan_id

\* a table of several loans with an amount at its floor and a credit score
\* and an age at a limit of their range
C20_Witness ==
    /\ Len(static_loan_df) >= 2
    /\ \E i \in Loans : static_loan_df[i].loan_amount \in {3000000, 50000000}
    /\ \E i \in Loans : static_loan_df[i].credit_score \in {300, 850}
    /\ \E i \in Loans : static_loan_df[i].age \in {21, 65}

\* C23: for num_loans >= 1 and a rate in [0,1] the share of loans with
\* default_flag = 1 lies within 5 percentage points of the rate.
C23_DefaultRateWithinFivePoints ==
    static_loan_df # <<>> =>
        Abs(100 * RateDen * Cardinality(Defaulted) - 100 * cfg.rate_num * cfg.num_loans)
            <= 5 * RateDen * cfg.num_loans

\* the offset of a row from its loan's event month
Offset(i, row) == row.month - static_loan_df[i].time_to_event

\* C24: a row's status is one its offset allows: On Time, 0+ or 30+ for a
\* censored loan and for offsets of -3 and before, 0+, 30+ or 60+ at offset -2,
\* 30+ or 60+ at offset -1, and 90+ in the default month of a defaulted loan.
C24_StatusAllowedAtOffset ==
    \A i \in Loans :
        \A k \in 1..Len(LoanRows(i)) :
            LET row == LoanRows(i)[k]
                defaulted == static_loan_df[i].default_flag = 1
            IN  /\ (~defaulted \/ Offset(i, row) <= 0 - 3) =>
                       row.payment_status \in {"On Time", "0+", "30+"}
                /\ (defaulted /\ Offset(i, row) = 0 - 2) =>
                       row.payment_status \in {"0+", "30+", "60+"}
                /\ (defaulted /\ Offset(i, row) = 0 - 1) =>
                       row.payment_status \in {"30+", "60+"}
                /\ (defaulted /\ Offset(i, row) = 0) => row.payment_status = "90+"

\* a defaulted loan with its rows before the run-up, the three months of the
\* run-up and the default month
C24_Witness ==
    /\ PanelComplete
    /\ \E i \in Defaulted : Len(LoanRows(i)) >= 5

\* the delinquency level of a status
Level(status) ==
    CASE status = "On Time" -> 0
      [] status = "0+" -> 1
      [] status = "30+" -> 2
      [] status = "60+" -> 3
      [] status = "90+" -> 4

\* C27: along the months of a loan the delinquency level never goes down.
C27_DelinquencyNeverDecreases ==
    \A i \in Loans :
        \A k \in 2..Len(LoanRows(i)) :
            Level(LoanRows(i)[k - 1].payment_status) <= Level(LoanRows(i)[k].payment_status)

\* C28: the three macro lists hold all max_months entries before the first
\* panel row exists, and every row's month is an index of the lists.
C28_MacroPathBeforeRows ==
    /\ pc \in {"macro", "macro_month"} => time_varying_rows = <<>>
    /\ time_varying_rows # <<>> =>
           /\ Len(macro.inflation_rates) = macro.max_months
           /\ Len(macro.unemployment_rates) = macro.max_months
           /\ Len(macro.exchange_rates) = macro.max_months
           /\ \A k \in 1..Len(time_varying_rows) :
                  time_varying_rows[k].month \in 1..macro.max_months

\* a finished panel with a row in the last month of the longest loan term
C28_Witness ==
    /\ PanelComplete
    /\ \E k \in 1..Len(time_varying_rows) :
           time_varying_rows[k].month = macro.max_months - 12

\* C30: for every valid configuration, those in which no loan defaults
\* included, the driver goes through generation, validation and export without
\* being ended by an exception, and returns the tables it wrote.
C30_DriverReachesExport ==
    /\ pc # "error"
    /\ pc = "done" => saved.written

\* C25: every loan's dti_ratio is the annuity of its own loan_amount, its own
\* interest_rate and its own loan_term over its own monthly_income, plus the
\* noise drawn for it, capped at 0.9, also when loans share a loan_amount.
C25_DtiFromOwnPayment ==
    [][(pc = "borrowers" /\ pc' = "defaults") =>
          \A i \in 1..cfg.num_loans :
              st'.dti_ratios[i]
                  = DtiRatio(st.loan_amounts[i], st'.monthly_incomes[i], st.loan_terms[i],
                             st.interest_rates[i],
                             NpAdv(NpAdv(np_state, 2 * cfg.num_loans), i))]_vars

\* the rank of loan i among the defaulted loans: its draw from the stream
DefaultRank(i) == Cardinality({j \in 1..i : st.default_flags[j] = 1})

\* the time to default of loan i drawn at the current stream state with a scale
TimeToDefaultWithScale(i, scale) ==
    Max(1, Min(st.loan_terms[i],
               RoundHalfEven(Pick(NpAdv(np_state, DefaultRank(i)), WeibullDraws) * scale, 100)))

\* C26: the time to default of a defaulted loan is drawn with the Weibull
\* scale max(3, round(20 * (1 - risk_factor))), rounded to the nearest integer.
C26_ScaleRoundedToNearest ==
    [][pc = "times" =>
          \A i \in 1..cfg.num_loans :
              st.default_flags[i] = 1 =>
                  st'.time_to_events[i]
                      = TimeToDefaultWithScale(i, WeibullScaleRounded(st.default_probs[i]))]_vars

\* the largest integer not above 20 * (1 - prob)
FloorOfTwentyTimesSurvival(prob) ==
    CHOOSE k \in 0..20 :
        /\ k * 10000 <= 20 * (10000 - prob)
        /\ (k + 1) * 10000 > 20 * (10000 - prob)

\* C26 (amended): the time to default of a defaulted loan is drawn with the
\* Weibull scale max(3, floor(20 * (1 - risk_factor))): the product is
\* truncated, not rounded to the nearest integer.
C26_ScaleTruncated ==
    [][pc = "times" =>
          \A i \in 1..cfg.num_loans :
              st.default_flags[i] = 1 =>
                  st'.time_to_events[i]
                      = TimeToDefaultWithScale(
                            i, Max(3, FloorOfTwentyTimesSurvival(st.default_probs[i])))]_vars

\* a defaulted loan has its time to default, and truncating and rounding
\* 20 * (1 - risk_factor) give different scales for it
C26_Witness ==
    /\ pc = "macro"
    /\ \E i \in 1..cfg.num_loans :
          /\ st.default_flags[i] = 1
          /\ st.time_to_events[i] >= 1
          /\ FloorOfTwentyTimesSurvival(st.default_probs[i]) >= 3
          /\ RoundHalfEven(20 * (10000 - st.default_probs[i]), 10000)
                 = FloorOfTwentyTimesSurvival(st.default_probs[i]) + 1

\* ------------------------------------------- the panel in two loan orders
\* the rows of a table in the opposite order
Reversed(table) == [k \in 1..Len(table) |-> table[Len(table) + 1 - k]]

\* lines 223-236 after lines 8-9: generate_time_varying_data called on a table
\* in a process whose import has just seeded both streams; the panel built
\* before is kept for comparison
CallPanelGenerator(table) ==
    /\ pc = "validate"
    /\ py_state' = seed
    /\ np_state' = seed
    /\ draws' = 0
    /\ static_loan_df' = table
    /\ macro' = EmptyMacro
    /\ tv' = EmptyLoop
    /\ time_varying_rows' = <<>>
    /\ pc' = "macro"
    /\ first' = [written |-> FALSE, static |-> static_loan_df, panel |-> time_varying_rows]
    /\ run' = run + 1
    /\ UNCHANGED <<cfg, err, st, report, saved, seed, db, push, api>>

\* line 290: iterrows() takes the loans in the order of the table
GeneratePanelInOrder ==
    /\ run = 1
    /\ CallPanelGenerator(static_loan_df)

\* line 290 on the same table with its rows in the opposite order
GeneratePanelReversed ==
    /\ run = 2
    /\ CallPanelGenerator(Reversed(static_loan_df))

NextReorder ==
    \/ Next
    \/ GeneratePanelInOrder
    \/ GeneratePanelReversed

SpecReorder == Init /\ [][NextReorder]_vars

\* what the claim compares of a row
RowOutcome(row) ==
    [month |-> row.month, payment_status |-> row.payment_status,
     days_past_due |-> row.days_past_due, remaining_balance |-> row.remaining_balance]

\* the outcomes of a loan's rows in a panel, in the order the panel holds them
OutcomesOf(panel, loan_id) ==
    LET OfLoan(r) == r.loan_id = loan_id
        rows == SelectSeq(panel, OfLoan)
    IN  [k \in 1..Len(rows) |-> RowOutcome(rows[k])]

\* C29: the panel of the same static table, generated from the same stream
\* state with the loans in the opposite order, holds for every loan the same
\* sequence of (month, payment_status, days_past_due, remaining_balance).
C29_RowsIndependentOfLoanOrder ==
    (run = 3 /\ pc = "validate") =>
        \A i \in Loans :
            OutcomesOf(time_varying_rows, static_loan_df[i].loan_id)
                = OutcomesOf(first.panel, static_loan_df[i].loan_id)

\* ------------------------------------------------ push_historical_data.py
MaxMissingColumns == 2

\* lines 76-81
feature_columns ==
    <<"loan_id", "customer_id", "event_timestamp",
      "loan_amount", "interest_rate", "loan_term", "product_type",
      "collateral_value", "ltv_ratio", "credit_score", "monthly_income",
      "dti_ratio", "age", "employment_years", "province", "urban_rural">>

\* lines 22-58: the columns the retrieval asks for, entity columns first
RetrievedColumns ==
    <<"loan_id", "customer_id", "event_timestamp",
      "loan_amount", "interest_rate", "loan_term", "product_type",
      "collateral_value", "ltv_ratio", "credit_score", "monthly_income",
      "dti_ratio", "age", "employment_years", "province", "urban_rural",
      "origination_date", "time_to_event", "default_flag", "observed">>

\* the columns of a frame that lacks some of those asked for
ColumnsWithout(absent) ==
    LET Present(c) == c \notin absent
    IN  SelectSeq(RetrievedColumns, Present)

\* lines 33-59: the frame the script goes on with; the retrieval may leave
\* columns out, event_timestamp may or may not be of a datetime type
InitPush ==
    /\ GeneratorAt("idle")
    /\ api = NoRequest
    /\ \E absent \in SUBSET Range(RetrievedColumns) :
       \E is_datetime \in BOOLEAN :
           /\ Cardinality(absent \cap Range(feature_columns)) <= MaxMissingColumns
           /\ absent \ Range(feature_columns) \subseteq {"origination_date"}
           /\ push = [pc |-> "event_timestamp",
                      columns |-> ColumnsWithout(absent),
                      is_datetime |-> is_datetime /\ "event_timestamp" \notin absent,
                      err |-> "",
                      missing_columns |-> <<>>,
                      pushed |-> [called |-> FALSE]]

\* lines 62-69: event_timestamp added or converted; a conversion of values
\* that are no dates raises
EnsureEventTimestamp ==
    /\ push.pc = "event_timestamp"
    /\ IF "event_timestamp" \notin Range(push.columns)
       THEN IF "origination_date" \in Range(push.columns)
            THEN \E parses \in BOOLEAN :
                     push' = IF parses
                             THEN [push EXCEPT !.columns = Append(@, "event_timestamp"),
                                               !.is_datetime = TRUE,
                                               !.pc = "created_timestamp"]
                             ELSE [push EXCEPT !.pc = "error", !.err = "to_datetime"]
            ELSE push' = [push EXCEPT !.columns = Append(@, "event_timestamp"),
                                      !.is_datetime = TRUE,
                                      !.pc = "created_timestamp"]
       ELSE IF ~push.is_datetime
            THEN \E parses \in BOOLEAN :
                     push' = IF parses
                             THEN [push EXCEPT !.is_datetime = TRUE,
                                               !.pc = "created_timestamp"]
                             ELSE [push EXCEPT !.pc = "error", !.err = "to_datetime"]
            ELSE push' = [push EXCEPT !.pc = "created_timestamp"]
    /\ UNCHANGED <<cfg, pc, err, py_state, np_state, draws, st, static_loan_df, macro, tv,
                   time_varying_rows, report, saved, run, first, seed, db, api>>

\* lines 72-73
EnsureCreatedTimestamp ==
    /\ push.pc = "created_timestamp"
    /\ push' = [push EXCEPT
                   !.columns = IF "created_timestamp" \notin Range(@)
                               THEN Append(@, "created_timestamp") ELSE @,
                   !.pc = "check"]
    /\ UNCHANGED <<cfg, pc, err, py_state, np_state, draws, st, static_loan_df, macro, tv,
                   time_varying_rows, report, saved, run, first, seed, db, api>>

\* the check when the entity and timestamp columns are taken for granted
missing_feature_columns(columns) ==
    LET Missing(col) == /\ col \notin Range(columns)
                        /\ col \notin {"loan_id", "customer_id", "event_timestamp"}
    IN  SelectSeq(feature_columns, Missing)

\* line 84
missing_columns(columns) ==
    LET Missing(col) == col \notin Range(columns)
    IN  SelectSeq(feature_columns, Missing)

\* lines 84-86: the ValueError carries the list of missing columns
CheckColumns ==
    /\ push.pc = "check"
    /\ LET missing == missing_columns(push.columns)
       IN  push' = IF missing # <<>>
                   THEN [push EXCEPT !.missing_columns = missing,
                                     !.pc = "error", !.err = "ValueError"]
                   ELSE [push EXCEPT !.pc = "push"]
    /\ UNCHANGED <<cfg, pc, err, py_state, np_state, draws, st, static_loan_df, macro, tv,
                   time_varying_rows, report, saved, run, first, seed, db, api>>

\* lines 89-93: df[feature_columns] raises KeyError for a column the frame
\* lacks; otherwise the selection, in the order of the list, is pushed
PushToStore ==
    /\ push.pc = "push"
    /\ push' = IF Range(feature_columns) \subseteq Range(push.columns)
               THEN [push EXCEPT
                        !.pushed = [called |-> TRUE, source |-> "loan_features_source",
                                    columns |-> feature_columns],
                        !.pc = "done"]
               ELSE [push EXCEPT !.pc = "error", !.err = "KeyError"]
    /\ UNCHANGED <<cfg, pc, err, py_state, np_state, draws, st, static_loan_df, macro, tv,
                   time_varying_rows, report, saved, run, first, seed, db, api>>

NextPush ==
    \/ EnsureEventTimestamp
    \/ EnsureCreatedTimestamp
    \/ CheckColumns
    \/ PushToStore

SpecPush == InitPush /\ [][NextPush]_vars

\* the required columns the frame lacks
Lacking == {c \in Range(feature_columns) : c \notin Range(push.columns)}

\* C21: a frame that lacks a required column at the check ends in a ValueError
\* naming exactly the missing columns and store.push is not called; a frame
\* that lacks none is pushed with exactly the required columns.
C21_MissingColumnsFailFast ==
    /\ (push.pc \in {"push", "done"}) => Lacking = {}
    /\ (push.pc = "error" /\ push.err # "to_datetime") =>
           /\ push.err = "ValueError"
           /\ Lacking # {}
           /\ Range(push.missing_columns) = Lacking
           /\ Len(push.missing_columns) = Cardinality(Lacking)
    /\ push.pushed.called <=> push.pc = "done"
    /\ push.pc = "done" =>
           /\ Range(push.pushed.columns) = Range(feature_columns)
           /\ Len(push.pushed.columns) = Cardinality(Range(feature_columns))

\* the script has stopped on a frame that lacks an entity column and a
\* feature column
C21_Witness ==
    /\ push.pc = "error"
    /\ push.err = "ValueError"
    /\ Len(push.missing_columns) = 2
    /\ "loan_id" \in Range(push.missing_columns)
    /\ ~push.pushed.called

\* ------------------------------- loan_prediction_api.py, model_service.py
MaxEntities == 2

\* loan_prediction_api.py line 130, src/model_service.py line 36
time_points == <<6, 12, 24, 36>>

\* the survival functions the forest may return, in thousandths: the value
\* at month t of a function that loses `slope` thousandths a month
SurvivalSlopes == {0, 5, 40}
survival_func(slope, t) == Max(0, 1000 - slope * t)

\* the complement left out: the survival probability itself
default_prob_of_survival(surv_prob) == surv_prob

\* loan_prediction_api.py line 149, src/model_service.py line 42
default_prob(surv_prob) == 1000 - surv_prob

\* loan_prediction_api.py lines 146-149, src/model_service.py lines 38-42:
\* the eight keys survival_prob_{t}m and default_prob_{t}m of a result
Probabilities(slope) ==
    [key \in {"survival_prob", "default_prob"} \X Range(time_points) |->
        IF key[1] = "survival_prob"
        THEN survival_func(slope, key[2])
        ELSE default_prob(survival_func(slope, key[2]))]

\* the id the request gives for its i-th loan
EntityId(i) == 10000 + i
None == 0

\* loan_prediction_api.py lines 171-181 and 197-210: a request for one loan
\* or for a batch of loans
InitPredict ==
    /\ GeneratorAt("idle")
    /\ push = NoPush
    /\ \E n \in 1..MaxEntities : \E endpoint \in {"predict", "predict_batch", "model_service"} :
           /\ endpoint = "predict" => n = 1
           /\ api = [pc |-> "features", endpoint |-> endpoint,
                     entity_rows |-> [i \in 1..n |-> EntityId(i)],
                     loan_id |-> <<>>, survival_funcs |-> <<>>,
                     i |-> 0, results |-> <<>>, status |-> 0]

\* loan_prediction_api.py lines 94-114: the online store answers a row an
\* entity; loan_id is None in the row of an entity it holds no features for.
\* src/model_service.py is handed a frame with a row for every loan.
GetOnlineFeatures ==
    /\ api.pc = "features"
    /\ \E found \in [1..Len(api.entity_rows) -> BOOLEAN] :
           /\ api.endpoint = "model_service" => \A i \in DOMAIN found : found[i]
           /\ api' = [api EXCEPT
                         !.loan_id = [i \in 1..Len(api.entity_rows) |->
                                         IF found[i] THEN api.entity_rows[i] ELSE None],
                         !.pc = "model"]
    /\ UNCHANGED <<cfg, pc, err, py_state, np_state, draws, st, static_loan_df, macro, tv,
                   time_varying_rows, report, saved, run, first, seed, db, push>>

\* loan_prediction_api.py lines 120-127, src/model_service.py lines 26-33: the
\* pipeline is run on every row of the frame, rows without features included;
\* whether it accepts such a row is the pickled pipeline's affair
ModelPredict ==
    /\ api.pc = "model"
    /\ \E accepted \in BOOLEAN :
       \E slopes \in [1..Len(api.entity_rows) -> SurvivalSlopes] :
           api' = IF ~accepted /\ None \in Range(api.loan_id)
                  THEN [api EXCEPT !.pc = "error", !.status = 500]
                  ELSE [api EXCEPT !.survival_funcs = slopes,
                                   !.pc = IF api.endpoint = "model_service"
                                          THEN "result_df" ELSE "loop"]
    /\ UNCHANGED <<cfg, pc, err, py_state, np_state, draws, st, static_loan_df, macro, tv,
                   time_varying_rows, report, saved, run, first, seed, db, push>>

\* loan_prediction_api.py lines 134-157: one turn of the loop over the rows
PredictLoan ==
    /\ api.pc = "loop"
    /\ api.i < Len(api.loan_id)
    /\ LET i == api.i + 1
           result == [loan_id |-> api.loan_id[i],
                      probabilities |-> Probabilities(api.survival_funcs[i])]
       IN  api' = IF api.loan_id[i] = None
                  THEN [api EXCEPT !.i = i]
                  ELSE [api EXCEPT !.i = i, !.results = Append(@, result)]
    /\ UNCHANGED <<cfg, pc, err, py_state, np_state, draws, st, static_loan_df, macro, tv,
                   time_varying_rows, report, saved, run, first, seed, db, push>>

\* loan_prediction_api.py line 159, then lines 183-189 or 212-218: no
\* prediction at all is answered with 404
ReturnResults ==
    /\ api.pc = "loop"
    /\ api.i = Len(api.loan_id)
    /\ api' = IF api.results = <<>>
              THEN [api EXCEPT !.pc = "error", !.status = 404]
              ELSE [api EXCEPT !.pc = "returned", !.status = 200]
    /\ UNCHANGED <<cfg, pc, err, py_state, np_state, draws, st, static_loan_df, macro, tv,
                   time_varying_rows, report, saved, run, first, seed, db, push>>

\* src/model_service.py lines 38-44: the columns are added for every row
PredictorReturns ==
    /\ api.pc = "result_df"
    /\ api' = [api EXCEPT
                  !.results = [i \in 1..Len(api.loan_id) |->
                                  [loan_id |-> api.loan_id[i],
                                   probabilities |-> Probabilities(api.survival_funcs[i])]],
                  !.pc = "returned", !.status = 200]
    /\ UNCHANGED <<cfg, pc, err, py_state, np_state, draws, st, static_loan_df, macro, tv,
                   time_varying_rows, report, saved, run, first, seed, db, push>>

NextPredict ==
    \/ GetOnlineFeatures
    \/ ModelPredict
    \/ PredictLoan
    \/ ReturnResults
    \/ PredictorReturns

SpecPredict == InitPredict /\ [][NextPredict]_vars

\* the loans of the request the store held features for, in request order
FoundLoans ==
    LET Found(id) == id # None
    IN  SelectSeq(api.loan_id, Found)

\* C22: every result returned carries a survival and a default probability
\* for exactly the horizons 6, 12, 24 and 36, with default = 1 - survival, and
\* the results are, in order, those of the loans whose features were found.
C22_FourHorizonsPerFoundLoan ==
    api.pc = "returned" =>
        /\ \A k \in 1..Len(api.results) :
               LET p == api.results[k].probabilities
               IN  /\ DOMAIN p = {"survival_prob", "default_prob"} \X {6, 12, 24, 36}
                   /\ \A t \in {6, 12, 24, 36} :
                          /\ p[<<"survival_prob", t>>] \in 0..1000
                          /\ p[<<"default_prob", t>>] + p[<<"survival_prob", t>>] = 1000
        /\ [k \in 1..Len(api.results) |-> api.results[k].loan_id] = FoundLoans

\* a batch answered with a loan skipped and a result whose survival
\* probabilities fall over the horizons
C22_Witness ==
    /\ api.pc = "returned"
    /\ api.endpoint = "predict_batch"
    /\ None \in Range(api.loan_id)
    /\ \E k \in 1..Len(api.results) :
           /\ api.results[k].probabilities[<<"survival_prob", 6>>] = 970
           /\ api.results[k].probabilities[<<"survival_prob", 36>>] = 820
====
